---- MODULE Spec2Model ----
(***************************************************************************)
(* Iterative reflection / convergence control.                             *)
(*                                                                         *)
(* Two call sites of the refinement loop are modelled:                     *)
(*   - reflection/sql_agent/adaptive_sql_workflow.py                       *)
(*       should_stop_iteration, run_adaptive_sql_workflow, _build_result   *)
(*   - reflection/chart_workflow/workflow.py                               *)
(*       run_reflection_workflow (with reflect_on_chart of llm.py)         *)
(*                                                                         *)
(* Text is a sequence of characters, so that str.strip() is computed and   *)
(* "identical after trimming" differs from "identical".  An Optional value *)
(* is a sequence of length at most one: None is <<>>, Some(v) is <<v>>.    *)
(***************************************************************************)
EXTENDS Integers, Sequences, FiniteSets, TLC

VARIABLES
    workflow,       \* "sql" or "chart": which call site is running
    config,         \* SQLWorkflowConfig / ChartWorkflowConfig (immutable)
    pc,             \* "start", "loop", "done" (returned), "raised" (exception)
    iterations,     \* the list of SQLIterationResult / IterationResult
    iteration_num,  \* the for-loop variable (iteration_num / iteration_index)
    previous_sql,   \* previous_sql / previous_code
    previous_df,    \* previous_df (sql) / previous_chart_path (chart)
    should_stop,    \* last value of should_stop (sql)
    reason,         \* last value of reason (sql)
    result,         \* the returned dict / WorkflowArtifacts, NoResult before
    returned,       \* what the last evaluate-and-refine call returned
    calls,          \* how often each collaborator has been called
    failed,         \* the collaborator whose call raised, None if none did
    asked,          \* the arguments of the last evaluate-and-refine call
    runs,           \* concurrent chart runs: the locals of each run
    files,          \* concurrent chart runs: the files under the output dirs
    store,          \* customer service: a CustomerServiceStore and the last tool call
    research,       \* EvaluatedResearchAgent.generate_report: its locals
    executor        \* ParallelToolExecutor: stats, lock, workers, results

vars == <<workflow, config, pc, iterations, iteration_num, previous_sql,
          previous_df, should_stop, reason, result, returned, calls, failed,
          asked, runs, files, store, research, executor>>

\* the locals of the single run, and the state of the concurrent runs
single == <<workflow, config, pc, iterations, iteration_num, previous_sql,
            previous_df, should_stop, reason, result, returned, calls, failed,
            asked>>

concurrent == <<runs, files>>

\* the state of the other components
others == <<store, research, executor>>

----------------------------------------------------------------------------
(* Bounds of the model *)

MaxIterationsBound == 3
MinIterationsBound == 3

----------------------------------------------------------------------------
(* Text and Optional *)

None == <<>>
Some(v) == <<v>>

Whitespace == {" "}

RECURSIVE lstrip(_)
lstrip(s) ==
    IF s = <<>> THEN <<>>
    ELSE IF Head(s) \in Whitespace THEN lstrip(Tail(s)) ELSE s

RECURSIVE rstrip(_)
rstrip(s) ==
    IF s = <<>> THEN <<>>
    ELSE IF s[Len(s)] \in Whitespace THEN rstrip(SubSeq(s, 1, Len(s) - 1)) ELSE s

\* str.strip(): surrounding whitespace removed, inner text kept
strip(s) == rstrip(lstrip(s))

\* variant: the upper end included
range_inclusive(a, b) == a .. b

\* range(a, b) of Python: a, a+1, ..., b-1
range(a, b) == a .. (b - 1)

\* Candidate texts a producer may return: "a", " a " and "b"
Candidates == { <<"a">>, <<" ", "a", " ">>, <<"b">> }

\* Feedback texts an evaluator may return: "", " " and "f"
Feedbacks == { <<>>, <<" ">>, <<"f">> }

\* What execute_sql_fn may return: a DataFrame with rows, an empty DataFrame,
\* or a one-row DataFrame with an "error" column
DataFrames ==
    { [empty |-> FALSE, columns |-> {"value"}],
      [empty |-> TRUE,  columns |-> {"value"}],
      [empty |-> FALSE, columns |-> {"error"}] }

----------------------------------------------------------------------------
(* Configurations: the dataclasses validate nothing, any integers are taken *)

SQLWorkflowConfig ==
    [ max_iterations      : 0 .. MaxIterationsBound,
      min_iterations      : 1 .. MinIterationsBound,
      stop_on_convergence : BOOLEAN,
      stop_on_success     : BOOLEAN ]

ChartWorkflowConfig ==
    [ max_iterations      : 0 .. MaxIterationsBound,
      stop_on_convergence : BOOLEAN ]

\* variant: every record carries the number of the first iteration
SQLIterationResult_unnumbered(n, sql, df, fb) ==
    [ iteration |-> 1,
      sql_query |-> sql,
      result    |-> df,
      feedback  |-> fb,
      has_error |-> ("error" \in df.columns) ]

SQLIterationResult(n, sql, df, fb) ==
    [ iteration |-> n,
      sql_query |-> sql,
      result    |-> df,
      feedback  |-> fb,
      has_error |-> ("error" \in df.columns) ]

IterationResult(n, code, fb) ==
    [ iteration |-> n, code |-> code, feedback |-> fb ]

----------------------------------------------------------------------------
(* Stop reasons of should_stop_iteration and of the loop's fall-through *)

ReasonNone        == ""
ReasonMax         == "Reached max iterations"
ReasonSuccess     == "SQL executed successfully with valid results"
ReasonIdentical   == "SQL query converged (identical to previous)"
ReasonNoFeedback  == "No feedback provided (model satisfied)"
ReasonRegression  == "Refinement introduced errors (reverting to previous)"
ReasonFallThrough == "Max iterations reached"

\* variant: whitespace-only feedback counts as feedback
NoFeedback_no_strip(fb) ==
    \/ fb = None
    \/ fb[1] = <<>>

\* `not current.feedback or not current.feedback.strip()`
NoFeedback(fb) ==
    \/ fb = None
    \/ fb[1] = <<>>
    \/ strip(fb[1]) = <<>>

----------------------------------------------------------------------------
(* Convergence policy: should_stop_iteration(iterations, config)            *)
(* returns <<should_stop, reason>>                                          *)

\* variant: the minimum-iterations rule is missing
should_stop_iteration_no_min(its, cfg) ==
    IF Len(its) = 0 THEN <<FALSE, ReasonNone>>
    ELSE LET current == its[Len(its)] IN
    IF Len(its) >= cfg.max_iterations THEN <<TRUE, ReasonMax>>
    ELSE IF /\ cfg.stop_on_success /\ ~current.has_error
            /\ ~current.result.empty /\ "error" \notin current.result.columns
      THEN <<TRUE, ReasonSuccess>>
    ELSE IF /\ cfg.stop_on_convergence /\ Len(its) >= 2
            /\ strip(current.sql_query) = strip(its[Len(its) - 1].sql_query)
      THEN <<TRUE, ReasonIdentical>>
    ELSE IF /\ cfg.stop_on_convergence /\ Len(its) >= 2
            /\ NoFeedback(current.feedback)
      THEN <<TRUE, ReasonNoFeedback>>
    ELSE IF /\ Len(its) >= 2
            /\ current.has_error /\ ~its[Len(its) - 1].has_error
      THEN <<TRUE, ReasonRegression>>
    ELSE <<FALSE, ReasonNone>>

\* variant: the stop-on-success rule is missing
should_stop_iteration_no_success(its, cfg) ==
    IF Len(its) = 0 THEN <<FALSE, ReasonNone>>
    ELSE LET current == its[Len(its)] IN
    IF Len(its) >= cfg.max_iterations THEN <<TRUE, ReasonMax>>
    ELSE IF Len(its) < cfg.min_iterations THEN <<FALSE, ReasonNone>>
    ELSE IF /\ cfg.stop_on_convergence /\ Len(its) >= 2
            /\ strip(current.sql_query) = strip(its[Len(its) - 1].sql_query)
      THEN <<TRUE, ReasonIdentical>>
    ELSE IF /\ cfg.stop_on_convergence /\ Len(its) >= 2
            /\ NoFeedback(current.feedback)
      THEN <<TRUE, ReasonNoFeedback>>
    ELSE IF /\ Len(its) >= 2
            /\ current.has_error /\ ~its[Len(its) - 1].has_error
      THEN <<TRUE, ReasonRegression>>
    ELSE <<FALSE, ReasonNone>>

\* variant: candidates are compared without strip()
should_stop_iteration_no_strip(its, cfg) ==
    IF Len(its) = 0 THEN <<FALSE, ReasonNone>>
    ELSE LET current == its[Len(its)] IN
    IF Len(its) >= cfg.max_iterations THEN <<TRUE, ReasonMax>>
    ELSE IF Len(its) < cfg.min_iterations THEN <<FALSE, ReasonNone>>
    ELSE IF /\ cfg.stop_on_success /\ ~current.has_error
            /\ ~current.result.empty /\ "error" \notin current.result.columns
      THEN <<TRUE, ReasonSuccess>>
    ELSE IF /\ cfg.stop_on_convergence /\ Len(its) >= 2
            /\ current.sql_query = its[Len(its) - 1].sql_query
      THEN <<TRUE, ReasonIdentical>>
    ELSE IF /\ cfg.stop_on_convergence /\ Len(its) >= 2
            /\ NoFeedback(current.feedback)
      THEN <<TRUE, ReasonNoFeedback>>
    ELSE IF /\ Len(its) >= 2
            /\ current.has_error /\ ~its[Len(its) - 1].has_error
      THEN <<TRUE, ReasonRegression>>
    ELSE <<FALSE, ReasonNone>>

\* variant: the regression rule is missing
should_stop_iteration_no_regression(its, cfg) ==
    IF Len(its) = 0 THEN <<FALSE, ReasonNone>>
    ELSE LET current == its[Len(its)] IN
    IF Len(its) >= cfg.max_iterations THEN <<TRUE, ReasonMax>>
    ELSE IF Len(its) < cfg.min_iterations THEN <<FALSE, ReasonNone>>
    ELSE IF /\ cfg.stop_on_success /\ ~current.has_error
            /\ ~current.result.empty /\ "error" \notin current.result.columns
      THEN <<TRUE, ReasonSuccess>>
    ELSE IF /\ cfg.stop_on_convergence /\ Len(its) >= 2
            /\ strip(current.sql_query) = strip(its[Len(its) - 1].sql_query)
      THEN <<TRUE, ReasonIdentical>>
    ELSE IF /\ cfg.stop_on_convergence /\ Len(its) >= 2
            /\ NoFeedback(current.feedback)
      THEN <<TRUE, ReasonNoFeedback>>
    ELSE <<FALSE, ReasonNone>>

\* variant: the max-iterations rule is missing
should_stop_iteration_no_max(its, cfg) ==
    IF Len(its) = 0 THEN <<FALSE, ReasonNone>>
    ELSE LET current == its[Len(its)] IN
    \* Don't stop before minimum iterations
    IF Len(its) < cfg.min_iterations THEN <<FALSE, ReasonNone>>
    \* Stop on successful execution (if enabled)
    ELSE IF /\ cfg.stop_on_success /\ ~current.has_error
            /\ ~current.result.empty /\ "error" \notin current.result.columns
      THEN <<TRUE, ReasonSuccess>>
    \* Stop on convergence (if enabled and at least 2 iterations): identical
    ELSE IF /\ cfg.stop_on_convergence /\ Len(its) >= 2
            /\ strip(current.sql_query) = strip(its[Len(its) - 1].sql_query)
      THEN <<TRUE, ReasonIdentical>>
    \* ... or no feedback provided
    ELSE IF /\ cfg.stop_on_convergence /\ Len(its) >= 2
            /\ NoFeedback(current.feedback)
      THEN <<TRUE, ReasonNoFeedback>>
    \* Stop if the current iteration has errors but the previous did not
    ELSE IF /\ Len(its) >= 2
            /\ current.has_error /\ ~its[Len(its) - 1].has_error
      THEN <<TRUE, ReasonRegression>>
    ELSE <<FALSE, ReasonNone>>

should_stop_iteration(its, cfg) ==
    IF Len(its) = 0 THEN <<FALSE, ReasonNone>>
    ELSE LET current == its[Len(its)] IN
    \* Check max iterations
    IF Len(its) >= cfg.max_iterations THEN <<TRUE, ReasonMax>>
    \* Don't stop before minimum iterations
    ELSE IF Len(its) < cfg.min_iterations THEN <<FALSE, ReasonNone>>
    \* Stop on successful execution (if enabled)
    ELSE IF /\ cfg.stop_on_success /\ ~current.has_error
            /\ ~current.result.empty /\ "error" \notin current.result.columns
      THEN <<TRUE, ReasonSuccess>>
    \* Stop on convergence (if enabled and at least 2 iterations): identical
    ELSE IF /\ cfg.stop_on_convergence /\ Len(its) >= 2
            /\ strip(current.sql_query) = strip(its[Len(its) - 1].sql_query)
      THEN <<TRUE, ReasonIdentical>>
    \* ... or no feedback provided
    ELSE IF /\ cfg.stop_on_convergence /\ Len(its) >= 2
            /\ NoFeedback(current.feedback)
      THEN <<TRUE, ReasonNoFeedback>>
    \* Stop if the current iteration has errors but the previous did not
    ELSE IF /\ Len(its) >= 2
            /\ current.has_error /\ ~its[Len(its) - 1].has_error
      THEN <<TRUE, ReasonRegression>>
    ELSE <<FALSE, ReasonNone>>

----------------------------------------------------------------------------
(* _build_result(iterations, stop_reason): the returned dictionary          *)

NoResult == [kind |-> "none"]

\* variant: the history is scanned forwards, the first clean iteration wins
_build_result_forward(its, stop_reason) ==
    LET clean == { i \in 1 .. Len(its) : ~its[i].has_error }
        best  == IF clean # {}
                   THEN its[CHOOSE i \in clean : \A j \in clean : i <= j]
                   ELSE its[Len(its)]
    IN  [ kind             |-> "sql",
          iterations       |-> its,
          best_iteration   |-> best,
          final_sql        |-> best.sql_query,
          final_result     |-> best.result,
          total_iterations |-> Len(its),
          stop_reason      |-> stop_reason,
          success          |-> ~best.has_error ]

_build_result(its, stop_reason) ==
    LET clean == { i \in 1 .. Len(its) : ~its[i].has_error }
        \* for it in reversed(iterations): first one without error
        best  == IF clean # {}
                   THEN its[CHOOSE i \in clean : \A j \in clean : i >= j]
                   ELSE its[Len(its)]   \* use last even if it has errors
    IN  [ kind             |-> "sql",
          iterations       |-> its,
          best_iteration   |-> best,
          final_sql        |-> best.sql_query,
          final_result     |-> best.result,
          total_iterations |-> Len(its),
          stop_reason      |-> stop_reason,
          success          |-> ~best.has_error ]

----------------------------------------------------------------------------
(* run_adaptive_sql_workflow                                                *)

\* the task of the run: `question` / `resolved_instruction`, never reassigned
Question == "question"

NoCalls == [generate |-> 0, execute |-> 0, refine |-> 0]

Called(c, fns) == [f \in DOMAIN c |-> IF f \in fns THEN c[f] + 1 ELSE c[f]]

\* `return _build_result(iterations, reason)`
Returns(value) ==
    /\ pc' = "done"
    /\ result' = value

\* variant: the exception is swallowed and the run returns normally
Raises_swallowed(exception) ==
    /\ pc' = "done"
    /\ result' = NoResult
    /\ failed' = Some(exception)

\* an exception leaves the run: the caller gets no result, only the exception
Raises(exception) ==
    /\ pc' = "raised"
    /\ result' = [kind |-> "raised", exception |-> exception]
    /\ failed' = Some(exception)

\* Iteration 1: generate_sql_fn, execute_sql_fn, append, should_stop_iteration;
\* return at once, or enter `for iteration_num in range(2, max_iterations + 1)`
InitialGeneration ==
    /\ workflow = "sql"
    /\ pc = "start"
    /\ \E sql_v1 \in Candidates, df_v1 \in DataFrames :
        LET its      == Append(iterations, SQLIterationResult(1, sql_v1, df_v1, None))
            decision == should_stop_iteration(its, config)
        IN  /\ iterations' = its
            /\ calls' = Called(calls, {"generate", "execute"})
            /\ UNCHANGED returned
            /\ should_stop' = decision[1]
            /\ reason' = decision[2]
            /\ IF decision[1]
                 THEN /\ Returns(_build_result(its, decision[2]))
                      /\ UNCHANGED <<previous_sql, previous_df, iteration_num>>
                 ELSE /\ previous_sql' = sql_v1
                      /\ previous_df' = df_v1
                      /\ IF 2 \in range(2, config.max_iterations + 1)
                           THEN /\ iteration_num' = 2
                                /\ pc' = "loop"
                                /\ UNCHANGED result
                           ELSE \* the loop body never runs: fall through
                                /\ Returns(_build_result(its, ReasonFallThrough))
                                /\ UNCHANGED iteration_num
    /\ UNCHANGED <<workflow, config, failed>>
    /\ UNCHANGED asked
    /\ UNCHANGED <<concurrent, others>>

\* variant: the refined iteration replaces the latest record of the history
Refinement_overwrite ==
    /\ workflow = "sql"
    /\ pc = "loop"
    /\ \E feedback \in Feedbacks, refined_sql \in Candidates, refined_df \in DataFrames :
        LET its      == Append(SubSeq(iterations, 1, Len(iterations) - 1),
                               SQLIterationResult(iteration_num, refined_sql,
                                                  refined_df, Some(feedback)))
            decision == should_stop_iteration(its, config)
        IN  /\ iterations' = its
            /\ calls' = Called(calls, {"refine", "execute"})
            /\ returned' = <<feedback, refined_sql>>
            /\ should_stop' = decision[1]
            /\ reason' = decision[2]
            /\ IF decision[1]
                 THEN \* break
                      /\ Returns(_build_result(its, decision[2]))
                      /\ UNCHANGED <<previous_sql, previous_df, iteration_num>>
                 ELSE /\ previous_sql' = refined_sql
                      /\ previous_df' = refined_df
                      /\ IF iteration_num + 1 \in range(2, config.max_iterations + 1)
                           THEN /\ iteration_num' = iteration_num + 1
                                /\ UNCHANGED <<pc, result>>
                           ELSE /\ Returns(_build_result(its, ReasonFallThrough))
                                /\ UNCHANGED iteration_num
    /\ UNCHANGED <<workflow, config, failed>>
    /\ asked' = [question |-> Question, sql_query |-> previous_sql,
                 df |-> previous_df]
    /\ UNCHANGED <<concurrent, others>>

\* variant: the loop runs one pass beyond max_iterations
Refinement_no_break ==
    /\ workflow = "sql"
    /\ pc = "loop"
    /\ \E feedback \in Feedbacks, refined_sql \in Candidates, refined_df \in DataFrames :
        LET its      == Append(iterations,
                               SQLIterationResult(iteration_num, refined_sql,
                                                  refined_df, Some(feedback)))
            decision == should_stop_iteration(its, config)
        IN  /\ iterations' = its
            /\ calls' = Called(calls, {"refine", "execute"})
            /\ returned' = <<feedback, refined_sql>>
            /\ should_stop' = decision[1]
            /\ reason' = decision[2]
            /\ IF decision[1] /\ decision[2] # ReasonMax
                 THEN \* break
                      /\ Returns(_build_result(its, decision[2]))
                      /\ UNCHANGED <<previous_sql, previous_df, iteration_num>>
                 ELSE /\ previous_sql' = refined_sql
                      /\ previous_df' = refined_df
                      /\ IF iteration_num + 1 \in range(2, config.max_iterations + 2)
                           THEN /\ iteration_num' = iteration_num + 1
                                /\ UNCHANGED <<pc, result>>
                           ELSE /\ Returns(_build_result(its, ReasonFallThrough))
                                /\ UNCHANGED iteration_num
    /\ UNCHANGED <<workflow, config, failed>>
    /\ asked' = [question |-> Question, sql_query |-> previous_sql,
                 df |-> previous_df]
    /\ UNCHANGED <<concurrent, others>>

\* variant: previous_sql and previous_df are not advanced
Refinement_stale ==
    /\ workflow = "sql"
    /\ pc = "loop"
    /\ \E feedback \in Feedbacks, refined_sql \in Candidates, refined_df \in DataFrames :
        LET its      == Append(iterations,
                               SQLIterationResult(iteration_num, refined_sql,
                                                  refined_df, Some(feedback)))
            decision == should_stop_iteration(its, config)
        IN  /\ iterations' = its
            /\ calls' = Called(calls, {"refine", "execute"})
            /\ returned' = <<feedback, refined_sql>>
            /\ should_stop' = decision[1]
            /\ reason' = decision[2]
            /\ IF decision[1]
                 THEN \* break
                      /\ Returns(_build_result(its, decision[2]))
                      /\ UNCHANGED <<previous_sql, previous_df, iteration_num>>
                 ELSE /\ UNCHANGED <<previous_sql, previous_df>>
                      /\ IF iteration_num + 1 \in range(2, config.max_iterations + 1)
                           THEN /\ iteration_num' = iteration_num + 1
                                /\ UNCHANGED <<pc, result>>
                           ELSE /\ Returns(_build_result(its, ReasonFallThrough))
                                /\ UNCHANGED iteration_num
    /\ UNCHANGED <<workflow, config, failed>>
    /\ asked' = [question |-> Question, sql_query |-> previous_sql,
                 df |-> previous_df]
    /\ UNCHANGED <<concurrent, others>>

\* One pass of the refinement loop: evaluate_and_refine_fn on the previous
\* iteration, execute_sql_fn, append, should_stop_iteration; break and return,
\* or go on with the next iteration_num, or fall out of the range and return
Refinement ==
    /\ workflow = "sql"
    /\ pc = "loop"
    /\ \E feedback \in Feedbacks, refined_sql \in Candidates, refined_df \in DataFrames :
        LET its      == Append(iterations,
                               SQLIterationResult(iteration_num, refined_sql,
                                                  refined_df, Some(feedback)))
            decision == should_stop_iteration(its, config)
        IN  /\ iterations' = its
            /\ calls' = Called(calls, {"refine", "execute"})
            /\ returned' = <<feedback, refined_sql>>
            /\ should_stop' = decision[1]
            /\ reason' = decision[2]
            /\ IF decision[1]
                 THEN \* break
                      /\ Returns(_build_result(its, decision[2]))
                      /\ UNCHANGED <<previous_sql, previous_df, iteration_num>>
                 ELSE /\ previous_sql' = refined_sql
                      /\ previous_df' = refined_df
                      /\ IF iteration_num + 1 \in range(2, config.max_iterations + 1)
                           THEN /\ iteration_num' = iteration_num + 1
                                /\ UNCHANGED <<pc, result>>
                           ELSE /\ Returns(_build_result(its, ReasonFallThrough))
                                /\ UNCHANGED iteration_num
    /\ UNCHANGED <<workflow, config, failed>>
    /\ asked' = [question |-> Question, sql_query |-> previous_sql,
                 df |-> previous_df]
    /\ UNCHANGED <<concurrent, others>>

\* generate_sql_fn raises: nothing catches it, the exception leaves the run
GenerationRaises ==
    /\ workflow = "sql"
    /\ pc = "start"
    /\ Raises("generate_sql_fn")
    /\ calls' = Called(calls, {"generate"})
    /\ UNCHANGED <<workflow, config, iterations, iteration_num, previous_sql,
                   previous_df, should_stop, reason, returned>>
    /\ UNCHANGED asked
    /\ UNCHANGED <<concurrent, others>>

\* evaluate_and_refine_fn raises: nothing catches it, the exception leaves the run
RefinementRaises ==
    /\ workflow = "sql"
    /\ pc = "loop"
    /\ Raises("evaluate_and_refine_fn")
    /\ calls' = Called(calls, {"refine"})
    /\ UNCHANGED <<workflow, config, iterations, iteration_num, previous_sql,
                   previous_df, should_stop, reason, returned>>
    /\ asked' = [question |-> Question, sql_query |-> previous_sql,
                 df |-> previous_df]
    /\ UNCHANGED <<concurrent, others>>

----------------------------------------------------------------------------
(* run_reflection_workflow (chart)                                          *)

\* what generate_initial_code returns: (description, code_with_tags)
generate_initial_code(description, code) == <<description, code>>

\* what reflect_on_chart returns: (feedback, description, refined_code),
\* the feedback stripped
reflect_on_chart(feedback, description, refined_code) ==
    <<strip(feedback), description, refined_code>>

Descriptions == { "Chart visualization" }

\* max_iters = max(1, config.max_iterations)
max_iters(cfg) == IF cfg.max_iterations > 1 THEN cfg.max_iterations ELSE 1

WorkflowArtifacts(its) ==
    [ kind       |-> "chart",
      iterations |-> its,
      final_code |-> its[Len(its)].code ]

\* Iteration 1: generate_initial_code, execute_python, append; then enter
\* `for iteration_index in range(2, max_iters + 1)` or return
ChartInitialGeneration ==
    /\ workflow = "chart"
    /\ pc = "start"
    /\ \E code \in Candidates, description \in Descriptions :
        LET code_v1 == generate_initial_code(description, code)
            its     == Append(iterations, IterationResult(1, code_v1, None))
        IN  /\ iterations' = its
            /\ calls' = Called(calls, {"generate", "execute"})
            /\ UNCHANGED returned
            /\ previous_sql' = code_v1
            /\ previous_df' = 1
            /\ IF 2 \in range(2, max_iters(config) + 1)
                 THEN /\ iteration_num' = 2
                      /\ pc' = "loop"
                      /\ UNCHANGED result
                 ELSE /\ Returns(WorkflowArtifacts(its))
                      /\ UNCHANGED iteration_num
    /\ UNCHANGED <<workflow, config, should_stop, reason, failed>>
    /\ UNCHANGED asked
    /\ UNCHANGED <<concurrent, others>>

\* One pass of the chart loop.  `feedback, candidate_code = reflect_on_chart(...)`
\* unpacks the returned tuple into two names: a tuple of another length raises
\* ValueError, which nothing catches.
ChartReflection ==
    /\ workflow = "chart"
    /\ pc = "loop"
    /\ \E fb \in Feedbacks, description \in Descriptions, code \in Candidates :
        LET value == reflect_on_chart(fb, description, code) IN
        /\ returned' = value
        /\ calls' = Called(calls, IF Len(value) = 2 THEN {"refine", "execute"}
                                                  ELSE {"refine"})
        /\ IF Len(value) # 2
             THEN \* ValueError: too many values to unpack (expected 2)
                  /\ pc' = "raised"
                  /\ result' = [kind |-> "raised", exception |-> "ValueError"]
                  /\ UNCHANGED <<iterations, iteration_num, previous_sql,
                                 previous_df>>
             ELSE LET feedback       == value[1]
                      candidate_code == value[2]
                  IN
                  IF /\ config.stop_on_convergence
                     /\ \/ strip(candidate_code) = strip(previous_sql)
                        \/ strip(feedback) = <<>>
                    THEN \* break
                         /\ Returns(WorkflowArtifacts(iterations))
                         /\ UNCHANGED <<iterations, iteration_num, previous_sql,
                                        previous_df>>
                    ELSE LET its == Append(iterations,
                                           IterationResult(iteration_num,
                                                           candidate_code,
                                                           Some(feedback)))
                         IN  /\ iterations' = its
                             /\ previous_sql' = candidate_code
                             /\ previous_df' = iteration_num
                             /\ IF iteration_num + 1 \in range(2, max_iters(config) + 1)
                                  THEN /\ iteration_num' = iteration_num + 1
                                       /\ UNCHANGED <<pc, result>>
                                  ELSE /\ Returns(WorkflowArtifacts(its))
                                       /\ UNCHANGED iteration_num
    /\ UNCHANGED <<workflow, config, should_stop, reason, failed>>
    /\ asked' = [instruction |-> Question, original_code |-> previous_sql,
                 chart_path |-> previous_df]
    /\ UNCHANGED <<concurrent, others>>

\* reflect_on_chart raises (the image cannot be read, the model call fails):
\* nothing catches it, the exception leaves the run
ChartReflectionRaises ==
    /\ workflow = "chart"
    /\ pc = "loop"
    /\ Raises("reflect_on_chart")
    /\ calls' = Called(calls, {"refine"})
    /\ UNCHANGED <<workflow, config, iterations, iteration_num, previous_sql,
                   previous_df, should_stop, reason, returned>>
    /\ asked' = [instruction |-> Question, original_code |-> previous_sql,
                 chart_path |-> previous_df]
    /\ UNCHANGED <<concurrent, others>>

\* generate_initial_code raises (the model call fails)
ChartGenerationRaises ==
    /\ workflow = "chart"
    /\ pc = "start"
    /\ Raises("generate_initial_code")
    /\ calls' = Called(calls, {"generate"})
    /\ UNCHANGED <<workflow, config, iterations, iteration_num, previous_sql,
                   previous_df, should_stop, reason, returned>>
    /\ UNCHANGED asked
    /\ UNCHANGED <<concurrent, others>>

----------------------------------------------------------------------------

Init ==
    /\ \/ workflow = "sql"   /\ config \in SQLWorkflowConfig
       \/ workflow = "chart" /\ config \in ChartWorkflowConfig
    /\ pc = "start"
    /\ iterations = <<>>
    /\ iteration_num = 0
    /\ previous_sql = None
    /\ previous_df = None
    /\ should_stop = FALSE
    /\ reason = ReasonNone
    /\ result = NoResult
    /\ returned = None
    /\ calls = NoCalls
    /\ failed = None
    /\ asked = None
    /\ runs = <<>>
    /\ files = <<>>
    /\ store = <<>>
    /\ research = <<>>
    /\ executor = <<>>

Next ==
    \/ InitialGeneration
    \/ Refinement
    \/ GenerationRaises
    \/ RefinementRaises
    \/ ChartInitialGeneration
    \/ ChartReflection
    \/ ChartReflectionRaises
    \/ ChartGenerationRaises

Spec == Init /\ [][Next]_vars

----------------------------------------------------------------------------
(* Properties of the refinement run                                         *)

Clean(it) == ~it.has_error

CleanNonEmpty(it) == ~it.has_error /\ ~it.result.empty

SameAfterStrip(a, b) == strip(a.sql_query) = strip(b.sql_query)

SqlDone == workflow = "sql" /\ pc = "done"

\* C1: for a configuration with 1 <= min_iterations <= max_iterations, a
\* completed run of the adaptive SQL workflow returns a history with
\* min_iterations <= len(history) <= max_iterations, whatever the producer,
\* the executor and the evaluator returned.
BoundsRespected ==
    ( /\ SqlDone
      /\ 1 <= config.min_iterations
      /\ config.min_iterations <= config.max_iterations )
    => /\ config.min_iterations <= Len(result.iterations)
       /\ Len(result.iterations) <= config.max_iterations
       /\ result.total_iterations = Len(result.iterations)

\* a run that stopped strictly between the two bounds' extremes
BoundsRespectedWitness ==
    /\ SqlDone
    /\ config.min_iterations = 2
    /\ config.max_iterations = 3
    /\ Len(result.iterations) = 2
    /\ result.stop_reason = ReasonSuccess

RegressionRollback ==
    workflow = "sql" =>
        \A n \in 2 .. Len(iterations) :
            ( /\ n >= config.min_iterations
              /\ Clean(iterations[n - 1])
              /\ iterations[n].has_error )
            => /\ Len(iterations) = n
               /\ pc = "done"
               /\ calls.refine = n - 1
               /\ result.best_iteration = iterations[n - 1]
               /\ result.best_iteration.iteration = n - 1

\* success on iteration 1, failure on iteration 2, with headroom left and no
\* other stop rule enabled: best is iteration 1
RegressionRollbackWitness ==
    /\ SqlDone
    /\ config.max_iterations = 3
    /\ ~config.stop_on_success
    /\ ~config.stop_on_convergence
    /\ Len(iterations) = 2
    /\ Clean(iterations[1])
    /\ iterations[2].has_error
    /\ result.best_iteration.iteration = 1
    /\ result.stop_reason = ReasonRegression

ConvergedIdenticalAnyFlags ==
    ( workflow = "sql" /\ config.stop_on_convergence ) =>
        \A n \in 2 .. Len(iterations) :
            ( /\ n >= config.min_iterations
              /\ n < config.max_iterations
              /\ SameAfterStrip(iterations[n - 1], iterations[n]) )
            => /\ Len(iterations) = n
               /\ pc = "done"
               /\ result.stop_reason = ReasonIdentical

\* C5 as amended: under the same conditions the run stops at iteration n and
\* never produces iteration n+1, also with non-empty feedback; the reason is
\* the identical-candidate one unless an earlier rule gives its own reason:
\* max iterations (n >= max_iterations) or success (stop_on_success and
\* iteration n clean with non-empty output).
ConvergedIdenticalStops ==
    ( workflow = "sql" /\ config.stop_on_convergence ) =>
        \A n \in 2 .. Len(iterations) :
            ( /\ n >= config.min_iterations
              /\ SameAfterStrip(iterations[n - 1], iterations[n]) )
            => /\ Len(iterations) = n
               /\ pc = "done"
               /\ calls.refine = n - 1
               /\ result.stop_reason =
                    IF n >= config.max_iterations THEN ReasonMax
                    ELSE IF config.stop_on_success /\ CleanNonEmpty(iterations[n])
                      THEN ReasonSuccess
                    ELSE ReasonIdentical

\* candidates that differ only in surrounding whitespace, feedback present,
\* headroom left: stopped as converged
ConvergedIdenticalStopsWitness ==
    /\ SqlDone
    /\ config.max_iterations = 3
    /\ Len(iterations) = 2
    /\ SameAfterStrip(iterations[1], iterations[2])
    /\ iterations[1].sql_query # iterations[2].sql_query
    /\ ~NoFeedback(iterations[2].feedback)
    /\ result.stop_reason = ReasonIdentical

\* C6: with stop_on_success, an iteration n with min_iterations <= n <
\* max_iterations that executes without error and returns non-empty output
\* ends the run there with the success reason; no evaluator or producer call
\* follows it.
StopOnFirstSuccess ==
    ( workflow = "sql" /\ config.stop_on_success ) =>
        \A n \in 1 .. Len(iterations) :
            ( /\ config.min_iterations <= n
              /\ n < config.max_iterations
              /\ CleanNonEmpty(iterations[n]) )
            => /\ Len(iterations) = n
               /\ pc = "done"
               /\ result.stop_reason = ReasonSuccess
               /\ result.total_iterations = n
               /\ calls.generate = 1
               /\ calls.refine = n - 1

\* a failed first iteration, then a clean second one with rows
StopOnFirstSuccessWitness ==
    /\ SqlDone
    /\ config.stop_on_success
    /\ config.max_iterations = 3
    /\ Len(iterations) = 2
    /\ iterations[1].has_error
    /\ CleanNonEmpty(iterations[2])
    /\ result.stop_reason = ReasonSuccess

\* max_iterations = 3 and a clean non-empty iteration 1: exactly one iteration
StopOnFirstSuccessScenarioD ==
    /\ SqlDone
    /\ config.stop_on_success
    /\ config.max_iterations = 3
    /\ CleanNonEmpty(iterations[1])
    /\ Len(result.iterations) = 1
    /\ result.stop_reason = ReasonSuccess

\* C7 as stated: with stop_on_success and a clean non-empty iteration 1, a
\* completed run has exactly max(1, min_iterations) iterations, for every
\* max_iterations >= min_iterations.
SuccessShortCircuitExact ==
    ( /\ SqlDone
      /\ config.stop_on_success
      /\ config.max_iterations >= config.min_iterations
      /\ CleanNonEmpty(result.iterations[1]) )
    => Len(result.iterations) =
         IF config.min_iterations > 1 THEN config.min_iterations ELSE 1

\* C7 as amended: such a run has at least max(1, min_iterations) iterations,
\* and exactly that many when iteration max(1, min_iterations) itself executed
\* without error and with non-empty output (the success rule reads only the
\* latest iteration).
SuccessShortCircuit ==
    ( /\ SqlDone
      /\ config.stop_on_success
      /\ config.max_iterations >= config.min_iterations
      /\ CleanNonEmpty(result.iterations[1]) )
    => LET m == IF config.min_iterations > 1 THEN config.min_iterations ELSE 1 IN
       /\ Len(result.iterations) >= m
       /\ CleanNonEmpty(result.iterations[m]) => Len(result.iterations) = m

\* min_iterations = 2 with headroom: stopped at 2 on the second success
SuccessShortCircuitWitness ==
    /\ SqlDone
    /\ config.stop_on_success
    /\ config.min_iterations = 2
    /\ config.max_iterations = 3
    /\ CleanNonEmpty(result.iterations[1])
    /\ CleanNonEmpty(result.iterations[2])
    /\ Len(result.iterations) = 2
    /\ result.stop_reason = ReasonSuccess

\* C8 as stated, part 1 (adaptive SQL workflow): stop_on_success disabled,
\* stop_on_convergence enabled, max_iterations = 2.  A clean iteration 1 does
\* not end the run; non-empty feedback and a different, clean iteration 2 end
\* it with 2 iterations, the max-iterations reason and iteration 2 as best.
RefinesOnceThenStopsSql ==
    ( /\ workflow = "sql"
      /\ ~config.stop_on_success
      /\ config.stop_on_convergence
      /\ config.max_iterations = 2
      /\ Len(iterations) >= 1
      /\ Clean(iterations[1]) )
    => /\ Len(iterations) = 1 => pc \in {"loop", "raised"}
       /\ ( /\ Len(iterations) = 2
            /\ ~NoFeedback(iterations[2].feedback)
            /\ ~SameAfterStrip(iterations[1], iterations[2])
            /\ Clean(iterations[2]) )
          => /\ pc = "done"
             /\ result.total_iterations = 2
             /\ result.stop_reason = ReasonMax
             /\ result.best_iteration = iterations[2]

\* C8 as stated, part 2 (chart workflow): stop_on_convergence enabled,
\* max_iterations = 2.  Iteration 1 does not end the run; once the reflection
\* has returned non-empty feedback and code that differs from the code of
\* iteration 1, the run ends with exactly 2 iterations, the second one final.
RefinesOnceThenStopsChart ==
    ( /\ workflow = "chart"
      /\ config.stop_on_convergence
      /\ config.max_iterations = 2
      /\ Len(iterations) >= 1 )
    => /\ (Len(iterations) = 1 /\ returned = None) => pc = "loop"
       /\ ( /\ returned # None
            /\ strip(returned[1]) # <<>>
            /\ strip(returned[Len(returned)]) # strip(iterations[1].code[2]) )
          => /\ pc = "done"
             /\ Len(result.iterations) = 2
             /\ result.final_code = returned[Len(returned)]

\* C8 as stated: both call sites
RefinesOnceThenStops ==
    /\ RefinesOnceThenStopsSql
    /\ RefinesOnceThenStopsChart

\* C9: with max_iterations = 1 a run performs exactly one generation: the
\* evaluator/refiner is never called and a completed run has exactly one
\* iteration, whatever iteration 1 produced and whatever the other flags.
SingleIteration ==
    config.max_iterations = 1 =>
        /\ calls.refine = 0
        /\ calls.generate <= 1
        /\ Len(iterations) <= 1
        /\ pc # "loop"
        /\ pc = "done" => /\ Len(result.iterations) = 1
                          /\ calls.generate = 1

\* a failed single iteration with min_iterations = 3 and no stop flag: returned
SingleIterationWitness ==
    /\ SqlDone
    /\ config.max_iterations = 1
    /\ config.min_iterations = 3
    /\ ~config.stop_on_success
    /\ ~config.stop_on_convergence
    /\ iterations[1].has_error
    /\ Len(result.iterations) = 1
    /\ calls.refine = 0

\* the chart workflow with max_iterations = 1: returned after one iteration
SingleIterationChartWitness ==
    /\ workflow = "chart"
    /\ pc = "done"
    /\ config.max_iterations = 1
    /\ Len(result.iterations) = 1
    /\ calls.refine = 0

\* C10: with min_iterations = max_iterations = k no success, convergence,
\* no-feedback or regression signal ends the run early: a completed run has
\* exactly k iterations and the max-iterations stop reason.
MinEqualsMax ==
    ( /\ workflow = "sql"
      /\ config.min_iterations = config.max_iterations )
    => /\ Len(iterations) < config.max_iterations => pc # "done"
       /\ pc = "done" => /\ Len(result.iterations) = config.max_iterations
                         /\ result.stop_reason = ReasonMax

\* k = 3 with every early signal present on the way: a clean non-empty
\* iteration 1 under stop_on_success, an identical iteration 2 with empty
\* feedback under stop_on_convergence that also regresses
MinEqualsMaxWitness ==
    /\ SqlDone
    /\ config.min_iterations = 3
    /\ config.max_iterations = 3
    /\ config.stop_on_success
    /\ config.stop_on_convergence
    /\ CleanNonEmpty(iterations[1])
    /\ SameAfterStrip(iterations[1], iterations[2])
    /\ NoFeedback(iterations[2].feedback)
    /\ iterations[2].has_error
    /\ Len(result.iterations) = 3
    /\ result.stop_reason = ReasonMax

----------------------------------------------------------------------------
(* Failures of the collaborators                                            *)

FirstCallFns == {"generate_sql_fn", "generate_initial_code"}

RefineFns == {"evaluate_and_refine_fn", "reflect_on_chart"}

\* C11: if the producer fails on iteration n >= 2 the failure is not
\* propagated: the run stops with stop reason producer_exhausted, its history
\* keeps exactly the n-1 iterations already recorded and the best iteration
\* is one of them.
ProducerExhausted ==
    \A fn \in RefineFns :
        failed = Some(fn) =>
            /\ pc = "done"
            /\ result.kind # "raised"
            /\ result.iterations = iterations
            /\ Len(result.iterations) = iteration_num - 1
            /\ workflow = "sql" =>
                   /\ result.stop_reason = "producer_exhausted"
                   /\ result.best_iteration \in 1..Len(iterations)

\* C12: if the evaluator fails during a refinement step the run is not
\* aborted: no exception leaves the run, and once the run is over it has a
\* result that contains every iteration recorded so far.
EvaluatorFailureTolerated ==
    \A fn \in RefineFns :
        (failed = Some(fn) /\ calls.refine >= 1) =>
            /\ pc \in {"loop", "done"}
            /\ pc = "done" =>
                   /\ result.kind \in {"sql", "chart"}
                   /\ Len(result.iterations) >= Len(iterations)

\* C13: if the producer fails on the very first call the run fails as a
\* whole: the exception reaches the caller, no result is returned, no
\* iteration has been recorded and neither the executor nor the evaluator
\* has been called.
FirstCallFailureIsFatal ==
    \A fn \in FirstCallFns :
        failed = Some(fn) =>
            /\ pc = "raised"
            /\ result = [kind |-> "raised", exception |-> fn]
            /\ iterations = <<>>
            /\ calls = [generate |-> 1, execute |-> 0, refine |-> 0]

\* generate_sql_fn has raised on the first call of a run that would otherwise
\* have gone on to three iterations
FirstCallFailureIsFatalWitness ==
    /\ workflow = "sql"
    /\ failed = Some("generate_sql_fn")
    /\ pc = "raised"
    /\ config.max_iterations = 3
    /\ iterations = <<>>

\* the same on the chart workflow: generate_initial_code has raised
FirstCallFailureIsFatalChartWitness ==
    /\ workflow = "chart"
    /\ failed = Some("generate_initial_code")
    /\ pc = "raised"
    /\ iterations = <<>>

----------------------------------------------------------------------------
(* Shape of the history                                                     *)

Numbered(its) == \A i \in 1..Len(its) : its[i].iteration = i

\* C14: at every point of every run the iteration numbers of the history are
\* 1, 2, ..., len(history) in order, without gap or repeat, and so are those
\* of a returned result, whatever the stop reason.
IndexMonotonicity ==
    /\ Numbered(iterations)
    /\ pc = "done" => Numbered(result.iterations)

\* a run of three allowed iterations that stopped early, on a regression, with
\* two numbered records
IndexMonotonicityWitness ==
    /\ SqlDone
    /\ config.max_iterations = 3
    /\ result.stop_reason = ReasonRegression
    /\ Len(result.iterations) = 2
    /\ result.iterations[2].iteration = 2

\* runs that stopped early on success and on convergence
IndexMonotonicitySuccessWitness ==
    /\ SqlDone
    /\ result.stop_reason = ReasonSuccess
    /\ Len(result.iterations) = 2
    /\ config.max_iterations = 3

IndexMonotonicityConvergedWitness ==
    /\ SqlDone
    /\ result.stop_reason = ReasonIdentical
    /\ Len(result.iterations) = 2
    /\ config.max_iterations = 3

----------------------------------------------------------------------------
(* Order of the convergence rules                                           *)

Latest == iterations[Len(iterations)]

Previous == iterations[Len(iterations) - 1]

\* the latest feedback is absent, empty or whitespace-only
FeedbackAbsent(it) == it.feedback = None \/ strip(it.feedback[1]) = <<>>

\* stop_on_convergence is on, min_iterations is reached, max_iterations is
\* not, and the success rule does not stop the run
ConvergenceRulesDecide ==
    /\ workflow = "sql"
    /\ Len(iterations) >= 1
    /\ config.stop_on_convergence
    /\ Len(iterations) >= config.min_iterations
    /\ Len(iterations) < config.max_iterations
    /\ ~(config.stop_on_success /\ CleanNonEmpty(Latest))

\* C15 as stated: under ConvergenceRulesDecide the policy returns STOP with
\* the no-feedback reason whenever the latest feedback is absent, empty or
\* whitespace-only, for a history of any length >= 1.
NoFeedbackStopsAnyLength ==
    (ConvergenceRulesDecide /\ FeedbackAbsent(Latest))
    => should_stop_iteration(iterations, config) = <<TRUE, ReasonNoFeedback>>

\* C15: under ConvergenceRulesDecide, for a history of length >= 2 whose
\* latest feedback is absent, empty or whitespace-only, the policy returns
\* STOP and the run returns: with the no-feedback reason when the latest
\* query differs from the previous one after trimming, with the
\* identical-query reason when it does not.  With a single iteration (whose
\* feedback is always absent) the policy returns CONTINUE and the run does
\* not return.
NoFeedbackStops ==
    (ConvergenceRulesDecide /\ FeedbackAbsent(Latest))
    => LET decision == should_stop_iteration(iterations, config) IN
       IF Len(iterations) >= 2
         THEN /\ decision = <<TRUE, IF SameAfterStrip(Latest, Previous)
                                      THEN ReasonIdentical
                                      ELSE ReasonNoFeedback>>
              /\ pc = "done"
              /\ result.stop_reason = decision[2]
         ELSE /\ decision = <<FALSE, ReasonNone>>
              /\ pc # "done"

\* a run stopped by whitespace-only feedback on a changed query
NoFeedbackStopsWitness ==
    /\ SqlDone
    /\ ConvergenceRulesDecide
    /\ Len(iterations) = 2
    /\ Latest.feedback = Some(<<" ">>)
    /\ ~SameAfterStrip(Latest, Previous)
    /\ result.stop_reason = ReasonNoFeedback

\* C16: whenever the latest iteration failed and the previous one succeeded,
\* with min_iterations reached and max_iterations not reached, the policy
\* stops with the regression reason, never with the identical-query or the
\* no-feedback reason.
RegressionBeforeConvergence ==
    ( /\ workflow = "sql"
      /\ Len(iterations) >= 2
      /\ Len(iterations) >= config.min_iterations
      /\ Len(iterations) < config.max_iterations
      /\ Latest.has_error
      /\ ~Previous.has_error )
    => /\ should_stop_iteration(iterations, config) = <<TRUE, ReasonRegression>>
       /\ pc = "done" => result.stop_reason = ReasonRegression

----------------------------------------------------------------------------
(* Growth of the history                                                    *)

IsPrefix(s, t) == Len(s) <= Len(t) /\ SubSeq(t, 1, Len(s)) = s

----------------------------------------------------------------------------
(* Two concurrent calls of run_reflection_workflow                          *)
(*                                                                          *)
(* Each call has its own locals (runs[r]); the chart images and the final   *)
(* code are files under config.output_dir, named from config.image_basename *)
(* (left at its default "chart").  A candidate's execution saves its chart  *)
(* to the output_path it was generated for; reflect_on_chart reads the file *)
(* at chart_path back.                                                      *)

RunIds == {1, 2}

\* Path.cwd(), the default of output_dir, and one other directory
OutputDirs == {"cwd", "out"}

ChartRunConfig ==
    [ output_dir          : OutputDirs,
      max_iterations      : 1 .. 2,
      stop_on_convergence : BOOLEAN,
      save_final_code     : BOOLEAN ]

\* output_dir / f"{config.image_basename}_v{n}.png"
chart_path(cfg, n) ==
    [dir |-> cfg.output_dir, name |-> <<"chart", "v", n, "png">>]

\* output_dir / f"{config.image_basename}_final.py"
final_code_path(cfg) ==
    [dir |-> cfg.output_dir, name |-> <<"chart", "final", "py">>]

Paths ==
    { chart_path(cfg, n) : cfg \in ChartRunConfig, n \in 1..2 }
        \cup { final_code_path(cfg) : cfg \in ChartRunConfig }

\* what a file holds: the run that wrote it last and the code it came from
Written(r, code) == Some([writer |-> r, code |-> code])

ChartIterationResult(n, code, path, fb) ==
    [ iteration |-> n, code |-> code, chart_path |-> path, feedback |-> fb ]

StartedRun(cfg) ==
    [ config              |-> cfg,
      pc                  |-> "start",
      iterations          |-> <<>>,
      previous_code       |-> None,
      previous_chart_path |-> None,
      seen                |-> None,
      result              |-> NoResult ]

\* iteration 1 of run r: generate_initial_code for chart_v1_path,
\* execute_python (the chart is saved to chart_v1_path), append
RunInitialGeneration(r) ==
    /\ runs[r].pc = "start"
    /\ \E code \in Candidates, description \in Descriptions :
        LET cfg           == runs[r].config
            chart_v1_path == chart_path(cfg, 1)
            code_v1       == generate_initial_code(description, code)
        IN  /\ files' = [files EXCEPT ![chart_v1_path] = Written(r, code_v1)]
            /\ runs' = [runs EXCEPT
                  ![r].iterations = Append(@, ChartIterationResult(
                                              1, code_v1, chart_v1_path, None)),
                  ![r].previous_code = code_v1,
                  ![r].previous_chart_path = Some(chart_v1_path),
                  ![r].pc = IF 2 \in range(2, max_iters(cfg) + 1)
                              THEN "loop" ELSE "save"]
    /\ UNCHANGED <<single, others>>

\* one pass of the loop of run r: reflect_on_chart reads the image at
\* previous_chart_path, the returned tuple is unpacked into two names
RunReflection(r) ==
    /\ runs[r].pc = "loop"
    /\ \E fb \in Feedbacks, description \in Descriptions, code \in Candidates :
        LET cfg   == runs[r].config
            n     == Len(runs[r].iterations) + 1
            image == files[runs[r].previous_chart_path[1]]
            value == reflect_on_chart(fb, description, code)
        IN
        IF Len(value) # 2
          THEN \* ValueError: too many values to unpack (expected 2)
               /\ runs' = [runs EXCEPT
                     ![r].seen = image,
                     ![r].pc = "raised",
                     ![r].result = [kind |-> "raised", exception |-> "ValueError"]]
               /\ UNCHANGED files
          ELSE IF /\ cfg.stop_on_convergence
                  /\ \/ strip(value[2]) = strip(runs[r].previous_code)
                     \/ strip(value[1]) = <<>>
            THEN \* break
                 /\ runs' = [runs EXCEPT ![r].seen = image, ![r].pc = "save"]
                 /\ UNCHANGED files
            ELSE /\ files' = [files EXCEPT
                       ![chart_path(cfg, n)] = Written(r, value[2])]
                 /\ runs' = [runs EXCEPT
                       ![r].seen = image,
                       ![r].iterations = Append(@, ChartIterationResult(
                                            n, value[2], chart_path(cfg, n),
                                            Some(value[1]))),
                       ![r].previous_code = value[2],
                       ![r].previous_chart_path = Some(chart_path(cfg, n)),
                       ![r].pc = IF n + 1 \in range(2, max_iters(cfg) + 1)
                                   THEN "loop" ELSE "save"]
    /\ UNCHANGED <<single, others>>

\* after the loop of run r: final_code_path.write_text(...) when
\* config.save_final_code, then return WorkflowArtifacts
RunSaveFinalCode(r) ==
    /\ runs[r].pc = "save"
    /\ LET cfg  == runs[r].config
           its  == runs[r].iterations
           code == its[Len(its)].code
       IN  /\ files' = IF cfg.save_final_code
                         THEN [files EXCEPT ![final_code_path(cfg)] = Written(r, code)]
                         ELSE files
           /\ runs' = [runs EXCEPT
                 ![r].pc = "done",
                 ![r].result = [ kind            |-> "chart",
                                 iterations      |-> its,
                                 final_code_path |->
                                     IF cfg.save_final_code
                                       THEN Some(final_code_path(cfg))
                                       ELSE None ]]
    /\ UNCHANGED <<single, others>>

InitConcurrent ==
    /\ runs \in [RunIds -> {StartedRun(cfg) : cfg \in ChartRunConfig}]
    /\ files = [p \in Paths |-> None]
    /\ workflow = "concurrent"
    /\ config = <<>>
    /\ pc = "idle"
    /\ iterations = <<>>
    /\ iteration_num = 0
    /\ previous_sql = None
    /\ previous_df = None
    /\ should_stop = FALSE
    /\ reason = ReasonNone
    /\ result = NoResult
    /\ returned = None
    /\ calls = NoCalls
    /\ failed = None
    /\ asked = None
    /\ store = <<>>
    /\ research = <<>>
    /\ executor = <<>>

NextConcurrent ==
    \/ \E r \in RunIds : RunInitialGeneration(r)
    \/ \E r \in RunIds : RunReflection(r)
    \/ \E r \in RunIds : RunSaveFinalCode(r)

SpecConcurrent == InitConcurrent /\ [][NextConcurrent]_vars

\* what the file at path p holds, whoever wrote it
Content(p) == files[p][1].code

\* every file run r refers to holds what run r put there: the chart of each
\* recorded iteration and, once returned, the final code
OwnArtifacts(r) ==
    /\ \A i \in 1..Len(runs[r].iterations) :
          LET it == runs[r].iterations[i] IN
          Content(it.chart_path) = it.code
    /\ ( runs[r].pc = "done" /\ runs[r].result.final_code_path # None )
          => LET its == runs[r].result.iterations IN
             Content(runs[r].result.final_code_path[1]) = its[Len(its)].code

\* the image the evaluator of run r read back is the chart of run r's own
\* previous iteration
OwnChartReadBack(r) ==
    runs[r].seen # None
    => LET its == runs[r].iterations IN
       runs[r].seen[1].code = its[Len(its)].code

\* C18: two runs executing concurrently, their steps interleaved
\* arbitrarily, do not interfere: each run reads back and returns what it
\* would alone, the chart its own candidate drew and the files it wrote,
\* because the runs touch disjoint data.
RunsDoNotInterfere ==
    \A r \in RunIds : OwnArtifacts(r) /\ OwnChartReadBack(r)

\* the evaluator of a run reads back a chart that the other run wrote
RunsInterfereOnReadBack ==
    \E r \in RunIds :
        /\ runs[r].seen # None
        /\ runs[r].seen[1].writer # r
        /\ runs[r].seen[1].code # runs[r].iterations[1].code

\* runs with different output directories do not interfere
DisjointRunsDoNotInterfere ==
    runs[1].config.output_dir # runs[2].config.output_dir
    => \A r \in RunIds : OwnArtifacts(r) /\ OwnChartReadBack(r)

----------------------------------------------------------------------------
(* Termination of run_adaptive_sql_workflow when every call returns         *)

\* a call of run_adaptive_sql_workflow with any configuration
InitSql == Init /\ workflow = "sql"

\* the steps of a run whose collaborator calls all return
NextReturns ==
    \/ InitialGeneration
    \/ Refinement

\* run_adaptive_sql_workflow is one sequential call: the interpreter takes
\* its next step whenever there is one
SpecReturns == InitSql /\ [][NextReturns]_vars /\ WF_vars(NextReturns)

\* candidates generated so far: generate_sql_fn and evaluate_and_refine_fn
Generations == calls.generate + calls.refine

TerminatesZeroMaxWitness ==
    /\ SqlDone
    /\ config.max_iterations = 0
    /\ Generations = 1

----------------------------------------------------------------------------
(* Forced iterations of the chart workflow                                  *)

\* C20: in the chart workflow with stop_on_convergence disabled, a run whose
\* collaborator calls return records exactly max(1, max_iterations)
\* iterations, also when a reflection returns the previous code again or
\* empty feedback.
ForcedIterations ==
    ( /\ workflow = "chart"
      /\ ~config.stop_on_convergence
      /\ failed = None
      /\ pc \notin {"start", "loop"} )
    => /\ pc = "done"
       /\ Len(result.iterations) = max_iters(config)
       /\ Len(iterations) = max_iters(config)

----------------------------------------------------------------------------
(* Customer service: CustomerServiceStore backends and the transaction      *)
(* tools of tool_registry.py                                                *)
(*                                                                          *)
(* A transaction id is text, a sequence of characters: next_transaction_id  *)
(* formats f"{prefix}{n:03d}" and the SQL backends parse the trailing       *)
(* digits of the last id back with the regular expression (\d+)$.  SQLite   *)
(* orders ids as TEXT, byte by byte.  Amounts are whole numbers.            *)

\* rows a store may hold in the model
MaxTransactions == 4

\* create_transactions / create_transaction_dataframe: opening_balance
OpeningBalance == 500

SingleIdle ==
    /\ workflow = "idle"
    /\ config = <<>>
    /\ pc = "idle"
    /\ iterations = <<>>
    /\ iteration_num = 0
    /\ previous_sql = None
    /\ previous_df = None
    /\ should_stop = FALSE
    /\ reason = ReasonNone
    /\ result = NoResult
    /\ returned = None
    /\ calls = NoCalls
    /\ failed = None
    /\ asked = None

ConcurrentIdle == runs = <<>> /\ files = <<>>

Digits == <<"0", "1", "2", "3", "4", "5", "6", "7", "8", "9">>

\* the characters of the ids in byte order: digits come before capitals
Alphabet == Digits \o <<"E", "F", "N", "R", "T", "X">>

IsDigit(c) == \E i \in 1..Len(Digits) : Digits[i] = c

DigitValue(c) == (CHOOSE i \in 1..Len(Digits) : Digits[i] = c) - 1

Rank(c) == CHOOSE i \in 1..Len(Alphabet) : Alphabet[i] = c

RECURSIVE Decimal(_)
\* str(n) for n >= 0
Decimal(n) ==
    IF n < 10 THEN <<Digits[n + 1]>>
    ELSE Decimal(n \div 10) \o <<Digits[(n % 10) + 1]>>

\* f"{n:03d}"
Pad3(n) ==
    LET d == Decimal(n) IN
    IF Len(d) >= 3 THEN d
    ELSE [i \in 1..(3 - Len(d)) |-> "0"] \o d

\* f"{prefix}{n:03d}"
FormatId(prefix, n) == prefix \o Pad3(n)

RECURSIVE IntOf(_)
\* int(digits)
IntOf(d) ==
    IF d = <<>> THEN 0
    ELSE IntOf(SubSeq(d, 1, Len(d) - 1)) * 10 + DigitValue(d[Len(d)])

\* re.findall(r"(\d+)$", id): the longest run of digits that ends the id
TrailingDigits(id) ==
    LET k == CHOOSE k \in 1..(Len(id) + 1) :
                 /\ \A i \in k..Len(id) : IsDigit(id[i])
                 /\ k = 1 \/ ~IsDigit(id[k - 1])
    IN  SubSeq(id, k, Len(id))

\* n = int(m[0]) if m else 0
LastNumber(id) ==
    IF TrailingDigits(id) = <<>> THEN 0 ELSE IntOf(TrailingDigits(id))

RECURSIVE TextLess(_, _)
\* a < b for TEXT values (byte-wise comparison)
TextLess(a, b) ==
    IF b = <<>> THEN FALSE
    ELSE IF a = <<>> THEN TRUE
    ELSE IF a[1] # b[1] THEN Rank(a[1]) < Rank(b[1])
    ELSE TextLess(Tail(a), Tail(b))

Backends == {"tinydb", "duckdb", "sqlite"}

\* txn_prefix: the default "TXN" and another one a plan may pass
Prefixes == { <<"T", "X", "N">>, <<"R", "E", "F">> }

Amounts == {-20, 50, 100}

TransactionRow(id, amount, balance) ==
    [ transaction_id            |-> id,
      transaction_amount        |-> amount,
      balance_after_transaction |-> balance ]

\* the opening transaction both seeders create
OpeningTransaction ==
    TransactionRow(<<"T", "X", "N", "0", "0", "1">>, OpeningBalance, OpeningBalance)

\* the row that a backend takes for the last one: the row inserted last
\* (TinyDB txns[-1], DuckDB iloc[-1]) or, on SQLite, the first row of
\* ORDER BY transaction_id DESC
LastRow(s) ==
    LET rows == s.transactions IN
    IF s.backend = "sqlite"
      THEN CHOOSE r \in {rows[i] : i \in 1..Len(rows)} :
               \A i \in 1..Len(rows) :
                   rows[i].transaction_id # r.transaction_id
                   => TextLess(rows[i].transaction_id, r.transaction_id)
      ELSE rows[Len(rows)]

get_current_balance(s) ==
    IF s.transactions = <<>> THEN 0
    ELSE LastRow(s).balance_after_transaction

next_transaction_id(s, prefix) ==
    IF s.backend = "tinydb"
      THEN FormatId(prefix, Len(s.transactions) + 1)
    ELSE IF s.transactions = <<>> THEN FormatId(prefix, 1)
    ELSE FormatId(prefix, LastNumber(LastRow(s).transaction_id) + 1)

\* transaction_id TEXT PRIMARY KEY: SQLite refuses a second row with the id
IntegrityError(s, row) ==
    /\ s.backend = "sqlite"
    /\ \E i \in 1..Len(s.transactions) :
          s.transactions[i].transaction_id = row.transaction_id

insert_transaction(s, row) ==
    [s EXCEPT !.transactions = Append(@, row)]

\* seed_demo_data: the transactions are replaced by the opening transaction
seed_demo_data(s) ==
    [s EXCEPT !.transactions = <<OpeningTransaction>>]

\* t_append_transaction: the store afterwards and what the tool returned
\* (raised: the exception of insert_transaction left the tool)
t_append_transaction(s, amount, txn_prefix) ==
    LET last_bal == get_current_balance(s)
        new_bal  == last_bal + amount
        txn_id   == next_transaction_id(s, txn_prefix)
        row      == TransactionRow(txn_id, amount, new_bal)
    IN  IF IntegrityError(s, row)
          THEN [store |-> s, returned |-> row, raised |-> TRUE]
          ELSE [store |-> insert_transaction(s, row), returned |-> row,
                raised |-> FALSE]

\* variant: the proposal is committed to the store
t_propose_transaction_commits(s, amount) ==
    LET new_bal == get_current_balance(s) + amount
        row     == TransactionRow(<<"A">>, amount, new_bal)
    IN  [store |-> insert_transaction(s, row), returned |-> row, raised |-> FALSE]

\* t_propose_transaction: reads the balance, returns the would-be row
\* (transaction_id "AUTO_TXN")
t_propose_transaction(s, amount) ==
    LET last_bal == get_current_balance(s)
        new_bal  == last_bal + amount
    IN  [store |-> s, returned |-> TransactionRow(<<"A">>, amount, new_bal),
         raised |-> FALSE]

NoToolCall == [tool |-> "none"]

\* the record of a tool call: its arguments, the store as it was before, and
\* what came back
ToolCall(tool, s, amount, prefix, outcome) ==
    [ tool           |-> tool,
      amount         |-> amount,
      txn_prefix     |-> prefix,
      rows_before    |-> s.transactions,
      balance_before |-> get_current_balance(s),
      returned       |-> outcome.returned,
      raised         |-> outcome.raised ]

StoreOf(s) == [backend |-> s.backend, transactions |-> s.transactions]

StoreSeed ==
    /\ store' = [ backend      |-> store.backend,
                  transactions |-> seed_demo_data(StoreOf(store)).transactions,
                  last         |-> NoToolCall ]
    /\ UNCHANGED <<single, concurrent, research, executor>>

StoreAppend ==
    /\ Len(store.transactions) < MaxTransactions
    /\ \E amount \in Amounts, txn_prefix \in Prefixes :
        LET outcome == t_append_transaction(StoreOf(store), amount, txn_prefix) IN
        store' = [ backend      |-> store.backend,
                   transactions |-> outcome.store.transactions,
                   last         |-> ToolCall("append_transaction", StoreOf(store),
                                             amount, txn_prefix, outcome) ]
    /\ UNCHANGED <<single, concurrent, research, executor>>

StorePropose ==
    /\ \E amount \in Amounts :
        LET outcome == t_propose_transaction(StoreOf(store), amount) IN
        store' = [ backend      |-> store.backend,
                   transactions |-> outcome.store.transactions,
                   last         |-> ToolCall("propose_transaction", StoreOf(store),
                                             amount, None, outcome) ]
    /\ UNCHANGED <<single, concurrent, research, executor>>

\* a store as its constructor leaves it: seeded
InitStore ==
    /\ \E backend \in Backends :
          store = [ backend      |-> backend,
                    transactions |-> <<OpeningTransaction>>,
                    last         |-> NoToolCall ]
    /\ SingleIdle
    /\ ConcurrentIdle
    /\ research = <<>>
    /\ executor = <<>>

NextStore ==
    \/ StoreSeed
    \/ StoreAppend
    \/ StorePropose

SpecStore == InitStore /\ [][NextStore]_vars

\* C21: propose_transaction never mutates the store: after any sequence of
\* store operations followed by propose_transaction(amount), the current
\* balance and the transaction rows are what they were before the call, and
\* the returned balance_after_transaction is that balance plus amount.
ProposeDoesNotMutate ==
    store.last.tool = "propose_transaction"
    => /\ store.transactions = store.last.rows_before
       /\ get_current_balance(StoreOf(store)) = store.last.balance_before
       /\ store.last.returned.balance_after_transaction
             = store.last.balance_before + store.last.amount
       /\ ~store.last.raised

\* a proposal made on a store that holds three appended transactions
ProposeDoesNotMutateWitness ==
    /\ store.last.tool = "propose_transaction"
    /\ Len(store.transactions) = 4
    /\ store.last.amount = 50
    /\ store.last.returned.balance_after_transaction
          = get_current_balance(StoreOf(store)) + 50

\* C22: after append_transaction(amount), the returned
\* balance_after_transaction and the store's current balance both equal the
\* balance before the call plus amount, and the number of transaction rows
\* has grown by one, on every backend and after any earlier appends with any
\* txn_prefix values.
AppendUpdatesBalance ==
    store.last.tool = "append_transaction"
    => /\ ~store.last.raised
       /\ store.last.returned.balance_after_transaction
             = store.last.balance_before + store.last.amount
       /\ get_current_balance(StoreOf(store))
             = store.last.balance_before + store.last.amount
       /\ Len(store.transactions) = Len(store.last.rows_before) + 1

\* the same on the backends whose last row is the row inserted last
AppendUpdatesBalanceInsertionOrder ==
    store.backend # "sqlite" => AppendUpdatesBalance

\* SQLite, one append with prefix REF on the seeded store: the row is
\* inserted, and the current balance is still the opening balance
AppendedBalanceNotCurrent ==
    /\ store.backend = "sqlite"
    /\ store.last.tool = "append_transaction"
    /\ ~store.last.raised
    /\ Len(store.transactions) = 2
    /\ store.last.returned.balance_after_transaction = OpeningBalance + 100
    /\ get_current_balance(StoreOf(store)) = OpeningBalance

\* C29: any sequence of append_transaction calls yields pairwise distinct
\* transaction ids: the id generated for a new transaction is never the id
\* of a transaction already in the store, on every backend and for any mix
\* of txn_prefix values.
DistinctTransactionIds ==
    /\ \A i, j \in 1..Len(store.transactions) :
          i # j => store.transactions[i].transaction_id
                      # store.transactions[j].transaction_id
    /\ store.last.tool = "append_transaction"
       => \A i \in 1..Len(store.last.rows_before) :
             store.last.rows_before[i].transaction_id
                # store.last.returned.transaction_id

\* the same on the backends that number by the row inserted last
DistinctTransactionIdsInsertionOrder ==
    store.backend # "sqlite" => DistinctTransactionIds

\* SQLite, the second append with prefix REF: REF002 is generated again and
\* the insert fails on the primary key
GeneratedIdAlreadyStored ==
    /\ store.backend = "sqlite"
    /\ store.last.tool = "append_transaction"
    /\ store.last.raised
    /\ store.last.returned.transaction_id = <<"R", "E", "F", "0", "0", "2">>
    /\ store.transactions = store.last.rows_before
    /\ Len(store.transactions) = 2

----------------------------------------------------------------------------
(* Research agent with source evaluation: EvaluatedResearchAgent            *)
(* (eval/research_agent/agent.py)                                           *)
(*                                                                          *)
(* generate_report reads evaluation.status and evaluation.preferred_ratio,  *)
(* and _create_retry_prompt reads total_sources, preferred_count and        *)
(* preferred_ratio.  The EvaluationResult of eval/metrics.py has none of    *)
(* the three attributes and its status is a check mark (U+2705) or a cross  *)
(* (U+274C) followed by " PASS" or " FAIL", written here with the code      *)
(* point spelled out; an                                                    *)
(* evaluation that carries the attributes the agent reads has status        *)
(* "PASS" or "FAIL".  Both shapes are inputs; a ratio is a rank 0..2.       *)

\* the largest max_retries of the model (the default of the code is 2)
MaxRetriesBound == 2

Ratios == 0..2

\* what DomainEvaluator.evaluate_text returns: metrics.EvaluationResult
MetricsEvaluations ==
    [ status : {"U+2705 PASS", "U+274C FAIL"}, ratio : Ratios, has_attributes : {FALSE} ]

\* an evaluation with the attributes generate_report is written against
AttributeEvaluations ==
    [ status : {"PASS", "FAIL"}, ratio : Ratios, has_attributes : {TRUE} ]

\* evaluation.preferred_ratio, evaluation.total_sources, ...: AttributeError
\* on an object without the attribute
AttributeError(evaluation) == ~evaluation.has_attributes

\* the result dict of _generate_single_report for one attempt
ReportResult(attempt, evaluation) ==
    [ attempt |-> attempt, evaluation |-> evaluation, retry_count |-> None ]

\* the attempts a result dict can be told apart by
Passed(evaluation) == evaluation.status \in {"PASS", "U+2705 PASS"}

\* line 242-244: the result of the current attempt is returned
ReturnedAtLastAttempt(res, cur) == cur

\* one pass through the body of the while loop (lines 218-257)
GenerateReportAttempt ==
    /\ research.pc = "loop"
    /\ research.attempt <= research.max_retries
    /\ \E evaluation \in research.evaluations :
        LET cur == ReportResult(research.attempt, evaluation) IN
        IF ~research.evaluate_sources
          THEN research' = [research EXCEPT
                  !.pc = "returned",
                  !.returned = Some([cur EXCEPT !.evaluation = None,
                                                !.retry_count = Some(0)])]
        ELSE IF evaluation.status = "PASS"
                \/ research.attempt >= research.max_retries
          THEN research' = [research EXCEPT
                  !.pc = "returned",
                  !.attempts = Append(@, evaluation),
                  !.returned =
                      Some([ReturnedAtLastAttempt(research, cur) EXCEPT
                               !.retry_count = Some(research.attempt)])]
        ELSE IF AttributeError(evaluation)
          THEN \* line 247 (from the second attempt on) or
               \* _create_retry_prompt (line 365)
               research' = [research EXCEPT
                  !.pc = "raised",
                  !.attempts = Append(@, evaluation)]
        ELSE LET better ==
                    \/ research.best_result = None
                    \/ evaluation.ratio > research.best_evaluation[1].ratio
             IN research' = [research EXCEPT
                  !.attempts = Append(@, evaluation),
                  !.best_result = IF better THEN Some(cur) ELSE @,
                  !.best_evaluation = IF better THEN Some(evaluation) ELSE @,
                  !.attempt = @ + 1]
    /\ UNCHANGED <<single, concurrent, store, executor>>

\* lines 259-264: after the loop
GenerateReportAfterLoop ==
    /\ research.pc = "loop"
    /\ research.attempt > research.max_retries
    /\ IF research.best_result # None
         THEN research' = [research EXCEPT
                 !.pc = "returned",
                 !.returned = Some([research.best_result[1] EXCEPT
                                 !.retry_count = Some(research.max_retries)])]
         ELSE research' = [research EXCEPT !.pc = "raised"]
    /\ UNCHANGED <<single, concurrent, store, executor>>

\* generate_report is entered: attempt = 0, best_result = best_evaluation = None
InitResearch ==
    /\ \E max_retries \in -1..MaxRetriesBound, evaluate_sources \in BOOLEAN,
          evaluations \in {MetricsEvaluations, AttributeEvaluations} :
          research = [ max_retries      |-> max_retries,
                       evaluate_sources |-> evaluate_sources,
                       evaluations      |-> evaluations,
                       attempt          |-> 0,
                       best_result      |-> None,
                       best_evaluation  |-> None,
                       attempts         |-> <<>>,
                       returned         |-> None,
                       pc               |-> "loop" ]
    /\ SingleIdle
    /\ ConcurrentIdle
    /\ store = <<>>
    /\ executor = <<>>

NextResearch ==
    \/ GenerateReportAttempt
    \/ GenerateReportAfterLoop

SpecResearch == InitResearch /\ [][NextResearch]_vars

LastAttemptReturnedNotBest ==
    /\ research.pc = "returned"
    /\ research.evaluate_sources
    /\ research.max_retries = 1
    /\ Len(research.attempts) = 2
    /\ \A i \in 1..2 : research.attempts[i].status = "FAIL"
    /\ research.attempts[1].ratio = 2
    /\ research.attempts[2].ratio = 0
    /\ research.returned[1].attempt = 1
    /\ research.returned[1].retry_count = Some(1)

\* with metrics.EvaluationResult the first retry raises AttributeError
RetryRaisesAttributeError ==
    /\ research.pc = "raised"
    /\ research.evaluations = MetricsEvaluations
    /\ research.max_retries >= 1
    /\ Len(research.attempts) = 1

----------------------------------------------------------------------------
(* Adaptive SQL workflow: what a refinement step executes and is given      *)

\* C24: when the refined SQL of iteration n is identical to the SQL of
\* iteration n-1, convergence is detected and the workflow stops without
\* executing the refined SQL: one candidate fewer was executed than was
\* generated.
ConvergedWithoutExecuting ==
    (SqlDone /\ result.stop_reason = ReasonIdentical)
    => /\ SameAfterStrip(Latest, Previous)
       /\ calls.execute = Generations - 1

\* the run stopped on an identical query and every candidate, the identical
\* one included, was executed and recorded with its outcome
ConvergedAfterExecuting ==
    /\ SqlDone
    /\ result.stop_reason = ReasonIdentical
    /\ Latest.sql_query = Previous.sql_query
    /\ Len(iterations) = 2
    /\ calls.execute = 2
    /\ Generations = 2

\* the code text of the latest recorded chart iteration; iteration 1 holds
\* the pair generate_initial_code returned, whose second component is the code
PreviousChartCode == iterations[Len(iterations)].code[2]

\* C25: chart workflow with stop_on_convergence enabled: when the
\* reflection for iteration k >= 2 returns code identical after trimming to
\* the previous code, or empty or whitespace-only feedback, the loop exits at
\* once: the candidate is neither executed nor recorded, the run returns
\* exactly k-1 iterations and the final code is the code of iteration k-1.
ChartConvergenceBreaks ==
    ( /\ workflow = "chart"
      /\ config.stop_on_convergence
      /\ returned # None
      /\ \/ strip(returned[Len(returned)]) = strip(PreviousChartCode)
         \/ strip(returned[1]) = <<>> )
    => /\ pc = "done"
       /\ result.iterations = iterations
       /\ Len(result.iterations) = iteration_num - 1
       /\ result.final_code = iterations[iteration_num - 1].code
       /\ calls.execute = iteration_num - 1

\* the reflection for iteration 2 returned the code of iteration 1 again and
\* the run ended with ValueError instead of a result
ChartConvergenceRaises ==
    /\ workflow = "chart"
    /\ config.stop_on_convergence
    /\ iteration_num = 2
    /\ returned # None
    /\ strip(returned[Len(returned)]) = strip(PreviousChartCode)
    /\ strip(returned[1]) # <<>>
    /\ pc = "raised"
    /\ result = [kind |-> "raised", exception |-> "ValueError"]
    /\ Len(iterations) = 1

\* C26: each refinement step n >= 2 is driven by the most recent iteration:
\* the evaluator/refiner is called with the candidate and the execution
\* outcome of iteration n-1 (the result of the execution, which carries the
\* error when the execution failed; the rendered chart in the chart
\* workflow), together with the original task, the same in every step.
\* The calls.refine-th call of the evaluator is the one of step
\* n = calls.refine + 1.
RefinedFromLatest ==
    asked # None
    => /\ calls.refine >= 1
       /\ Len(iterations) >= calls.refine
       /\ workflow = "sql"
          => /\ asked.question = Question
             /\ asked.sql_query = iterations[calls.refine].sql_query
             /\ asked.df = iterations[calls.refine].result
       /\ workflow = "chart"
          => /\ asked.instruction = Question
             /\ asked.original_code = iterations[calls.refine].code
             /\ asked.chart_path = iterations[calls.refine].iteration

\* step 3 of an SQL run: the refiner was given iteration 2, whose execution
\* failed and whose query differs from the one of iteration 1
RefinedFromLatestWitness ==
    /\ workflow = "sql"
    /\ calls.refine = 2
    /\ Len(iterations) = 3
    /\ iterations[2].has_error
    /\ iterations[2].sql_query # iterations[1].sql_query
    /\ asked.sql_query = iterations[2].sql_query
    /\ asked.df = iterations[2].result
    /\ asked.question = Question

\* step 2 of a chart run: the reflection was given the code and the chart of
\* iteration 1
RefinedFromLatestChartWitness ==
    /\ workflow = "chart"
    /\ calls.refine = 1
    /\ asked # None
    /\ asked.original_code = iterations[1].code
    /\ asked.chart_path = 1

\* C28: every result run_adaptive_sql_workflow returns carries the
\* non-empty stop reason that should_stop_iteration computes on the final
\* history, for which it answers "stop"; the literal of the fall-through
\* after the loop, "Max iterations reached", is never used, for every
\* max_iterations and min_iterations.
FallbackReasonNeverUsed ==
    SqlDone
    => /\ result.stop_reason # ReasonFallThrough
       /\ result.stop_reason # ReasonNone
       /\ result.iterations = iterations
       /\ should_stop_iteration(result.iterations, config)
             = <<TRUE, result.stop_reason>>

\* the loop ran to its last pass (no stop flag set, three iterations) and the
\* reason is the one of should_stop_iteration, not the fall-through literal
FallbackReasonNeverUsedWitness ==
    /\ SqlDone
    /\ config.max_iterations = 3
    /\ ~config.stop_on_success
    /\ ~config.stop_on_convergence
    /\ Len(result.iterations) = 3
    /\ iteration_num = 3
    /\ result.stop_reason = ReasonMax

\* min_iterations above max_iterations: the run still ends by the max rule
FallbackReasonNeverUsedMinAboveMaxWitness ==
    /\ SqlDone
    /\ config.min_iterations > config.max_iterations
    /\ config.max_iterations = 2
    /\ Len(result.iterations) = 2
    /\ result.stop_reason = ReasonMax

----------------------------------------------------------------------------
(* Parallel tool execution: ParallelToolExecutor                            *)
(* (tool_use/research_agent/parallel_tools.py)                              *)
(*                                                                          *)
(* execute_tool_calls submits every call to a thread pool; each worker runs *)
(* _execute_single_tool, whose two `+= 1` on the shared _stats dict are a   *)
(* read followed by a write, made under self._lock; the calling thread      *)
(* collects the futures as they complete.  Execution times are left out.    *)

\* the largest number of tool calls in one execute_tool_calls
MaxToolCalls == 3

\* ParallelToolExecutor.__init__: max_workers = 5
max_workers == 5

\* the keys of tool_mapping
tool_mapping == {"arxiv_search_tool", "tavily_search_tool"}

ToolNames == tool_mapping \cup {"unknown_tool"}

\* call.function.arguments: JSON the tool accepts, JSON on which the tool
\* raises, and text that is not JSON
ToolArguments == {"{query}", "{raises}", "{not json"}

ToolCallObject(id, name, arguments) ==
    [ id |-> id, function |-> [name |-> name, arguments |-> arguments] ]

JSONDecodeError(arguments) == arguments = "{not json"

ToolRaises(name, arguments) == arguments = "{raises}"

\* tool_func(**args)
ToolResult(call) ==
    [ tool |-> call.function.name, args |-> call.function.arguments ]

\* the entry _execute_single_tool returns when the tool has run
SuccessEntry(call) ==
    [ call |-> call, result |-> ToolResult(call), error |-> None ]

\* the entry of the two except clauses of _execute_single_tool
ErrorEntry(call) ==
    LET tool_name == call.function.name
        error_msg ==
            IF JSONDecodeError(call.function.arguments)
              THEN <<"Invalid JSON arguments for", tool_name>>
            ELSE IF tool_name \notin tool_mapping
              THEN <<"Error executing", tool_name, "Unknown tool">>
            ELSE <<"Error executing", tool_name, "raised">>
    IN  [ call |-> call, result |-> [error |-> error_msg],
          error |-> Some(error_msg) ]

\* the call reaches `with self._lock`
Succeeds(call) ==
    /\ ~JSONDecodeError(call.function.arguments)
    /\ call.function.name \in tool_mapping
    /\ ~ToolRaises(call.function.name, call.function.arguments)

\* json.dumps(value)
dumps(value) == <<"json", value>>

\* variant: every message carries the id of the first result's call
format_tool_results_for_messages_first_id(results) ==
    [ j \in 1..Len(results) |->
        [ role         |-> "tool",
          tool_call_id |-> results[1].call.id,
          name         |-> results[j].call.function.name,
          content      |-> dumps(results[j].result) ] ]

format_tool_results_for_messages(results) ==
    [ j \in 1..Len(results) |->
        [ role         |-> "tool",
          tool_call_id |-> results[j].call.id,
          name         |-> results[j].call.function.name,
          content      |-> dumps(results[j].result) ] ]

StatKeys == tool_mapping \cup {"total_calls"}

\* _stats = defaultdict(int)
FreshStats == [k \in StatKeys |-> 0]

Workers == 1..Len(executor.tool_calls)

\* workers that a pool thread is running
Active == {w \in Workers : executor.pc[w] \notin {"queued", "done"}}

\* execute_tool_calls is entered: `if not tool_calls: return []`, otherwise
\* every call is submitted to the pool
SubmitToolCalls ==
    /\ executor.phase = "called"
    /\ executor' =
          IF executor.tool_calls = <<>>
            THEN [executor EXCEPT !.phase = "returned"]
            ELSE [executor EXCEPT !.phase = "running"]
    /\ UNCHANGED <<single, concurrent, store, research>>

\* a pool thread takes the call: arguments are parsed, the tool is looked up
\* and called; a failure is turned into an error entry
RunTool(w) ==
    /\ executor.phase = "running"
    /\ executor.pc[w] = "queued"
    /\ Cardinality(Active) < max_workers
    /\ LET call == executor.tool_calls[w] IN
       executor' =
          IF Succeeds(call)
            THEN [executor EXCEPT !.pc[w] = "acquire"]
            ELSE [executor EXCEPT !.pc[w] = "done",
                                  !.entry[w] = Some(ErrorEntry(call))]
    /\ UNCHANGED <<single, concurrent, store, research>>

\* variant: the statistics are updated without taking the lock
AcquireLock_no_lock(w) ==
    /\ executor.pc[w] = "acquire"
    /\ executor' = [executor EXCEPT !.pc[w] = "read_tool"]
    /\ UNCHANGED <<single, concurrent, store, research>>

\* `with self._lock:` entered
AcquireLock(w) ==
    /\ executor.pc[w] = "acquire"
    /\ executor.lock = 0
    /\ executor' = [executor EXCEPT !.pc[w] = "read_tool", !.lock = w]
    /\ UNCHANGED <<single, concurrent, store, research>>

\* self._stats[tool_name] += 1: the read
ReadToolCount(w) ==
    /\ executor.pc[w] = "read_tool"
    /\ executor' = [executor EXCEPT
          !.pc[w] = "write_tool",
          !.tmp[w] = executor.stats[executor.tool_calls[w].function.name]]
    /\ UNCHANGED <<single, concurrent, store, research>>

\* self._stats[tool_name] += 1: the write
WriteToolCount(w) ==
    /\ executor.pc[w] = "write_tool"
    /\ executor' = [executor EXCEPT
          !.pc[w] = "read_total",
          !.stats[executor.tool_calls[w].function.name] = executor.tmp[w] + 1]
    /\ UNCHANGED <<single, concurrent, store, research>>

\* self._stats["total_calls"] += 1: the read
ReadTotalCalls(w) ==
    /\ executor.pc[w] = "read_total"
    /\ executor' = [executor EXCEPT
          !.pc[w] = "write_total",
          !.tmp[w] = executor.stats["total_calls"]]
    /\ UNCHANGED <<single, concurrent, store, research>>

\* self._stats["total_calls"] += 1: the write
WriteTotalCalls(w) ==
    /\ executor.pc[w] = "write_total"
    /\ executor' = [executor EXCEPT
          !.pc[w] = "release",
          !.stats["total_calls"] = executor.tmp[w] + 1]
    /\ UNCHANGED <<single, concurrent, store, research>>

\* the with block is left and the entry is returned: the future is done
ReleaseLock(w) ==
    /\ executor.pc[w] = "release"
    /\ executor' = [executor EXCEPT
          !.pc[w] = "done",
          !.lock = IF @ = w THEN 0 ELSE @,
          !.entry[w] = Some(SuccessEntry(executor.tool_calls[w]))]
    /\ UNCHANGED <<single, concurrent, store, research>>

\* `for future in as_completed(future_to_call)`: a finished future is
\* yielded once and its entry appended
CollectResult(w) ==
    /\ executor.phase = "running"
    /\ executor.pc[w] = "done"
    /\ w \notin executor.collected
    /\ executor' = [executor EXCEPT
          !.collected = @ \cup {w},
          !.results = Append(@, executor.entry[w][1])]
    /\ UNCHANGED <<single, concurrent, store, research>>

\* every future was yielded: the pool is shut down, results are returned and
\* formatted into tool messages
ReturnResults ==
    /\ executor.phase = "running"
    /\ executor.collected = Workers
    /\ executor' = [executor EXCEPT
          !.phase = "returned",
          !.messages = format_tool_results_for_messages(executor.results)]
    /\ UNCHANGED <<single, concurrent, store, research>>

\* the statistics of an executor that is new, or that has made one
\* successful arxiv_search_tool call before
StatsBefore ==
    { FreshStats,
      [FreshStats EXCEPT !["arxiv_search_tool"] = 1, !["total_calls"] = 1] }

InitExecutor ==
    /\ \E n \in 0..MaxToolCalls :
       \E names \in [1..n -> ToolNames], arguments \in [1..n -> ToolArguments],
          before \in StatsBefore :
          executor = [ tool_calls |-> [w \in 1..n |->
                                          ToolCallObject(w, names[w], arguments[w])],
                       phase      |-> "called",
                       pc         |-> [w \in 1..n |-> "queued"],
                       tmp        |-> [w \in 1..n |-> 0],
                       entry      |-> [w \in 1..n |-> None],
                       lock       |-> 0,
                       stats      |-> before,
                       before     |-> before,
                       collected  |-> {},
                       results    |-> <<>>,
                       messages   |-> <<>> ]
    /\ SingleIdle
    /\ ConcurrentIdle
    /\ store = <<>>
    /\ research = <<>>

NextExecutor ==
    \/ SubmitToolCalls
    \/ ReturnResults
    \/ \E w \in Workers :
          \/ RunTool(w)
          \/ AcquireLock(w)
          \/ ReadToolCount(w)
          \/ WriteToolCount(w)
          \/ ReadTotalCalls(w)
          \/ WriteTotalCalls(w)
          \/ ReleaseLock(w)
          \/ CollectResult(w)

SpecExecutor == InitExecutor /\ [][NextExecutor]_vars

\* what _execute_single_tool makes of a call, whichever thread runs it
ExpectedEntry(call) ==
    IF Succeeds(call) THEN SuccessEntry(call) ELSE ErrorEntry(call)

\* C27: execute_tool_calls returns exactly one result entry per submitted
\* tool call, each entry carrying its own originating call, so that every
\* formatted tool message has the tool_call_id of the call that produced its
\* content, whatever the completion order of the workers and whether the
\* tool succeeds, is unknown, receives invalid JSON arguments or raises.
OneEntryPerCall ==
    executor.phase = "returned"
    => /\ Len(executor.results) = Len(executor.tool_calls)
       /\ \A w \in Workers :
             Cardinality({ j \in 1..Len(executor.results) :
                             executor.results[j].call = executor.tool_calls[w] }) = 1
       /\ \A j \in 1..Len(executor.results) :
             executor.results[j] = ExpectedEntry(executor.results[j].call)
       /\ Len(executor.messages) = Len(executor.tool_calls)
       /\ \A j \in 1..Len(executor.messages) :
             \E w \in Workers :
                /\ executor.tool_calls[w].id = executor.messages[j].tool_call_id
                /\ executor.messages[j].name = executor.tool_calls[w].function.name
                /\ executor.messages[j].content
                      = dumps(ExpectedEntry(executor.tool_calls[w]).result)

\* three calls (a success, an unknown tool, invalid JSON) returned in the
\* reverse of the order they were submitted in
OneEntryPerCallWitness ==
    /\ executor.phase = "returned"
    /\ Len(executor.tool_calls) = 3
    /\ Succeeds(executor.tool_calls[1])
    /\ executor.tool_calls[2].function.name = "unknown_tool"
    /\ ~JSONDecodeError(executor.tool_calls[2].function.arguments)
    /\ JSONDecodeError(executor.tool_calls[3].function.arguments)
    /\ executor.results[1].call.id = 3
    /\ executor.results[2].call.id = 2
    /\ executor.results[3].call.id = 1
    /\ executor.messages[3].tool_call_id = 1
    /\ executor.messages[3].content = dumps(ToolResult(executor.tool_calls[1]))

\* a call whose tool raised, returned before a successful call submitted
\* earlier
OneEntryPerCallRaisesWitness ==
    /\ executor.phase = "returned"
    /\ Len(executor.tool_calls) = 2
    /\ Succeeds(executor.tool_calls[1])
    /\ executor.tool_calls[2].function.name \in tool_mapping
    /\ ToolRaises(executor.tool_calls[2].function.name,
                  executor.tool_calls[2].function.arguments)
    /\ executor.results[1].call.id = 2
    /\ executor.results[1].error # None

RECURSIVE SumOver(_, _)
\* the sum of f over the keys S
SumOver(f, S) ==
    IF S = {} THEN 0
    ELSE LET k == CHOOSE k \in S : TRUE IN f[k] + SumOver(f, S \ {k})

Succeeded == {w \in Workers : Succeeds(executor.tool_calls[w])}

\* C30: the statistics lose no update: under any interleaving of the worker
\* threads, after execute_tool_calls returns, stats['total_calls'] has grown
\* by exactly the number of tool calls that executed successfully and equals
\* the sum of the per-tool counters; calls that failed (unknown tool, invalid
\* JSON, exception) are not counted.
NoLostStatsUpdate ==
    executor.phase = "returned"
    => /\ executor.stats["total_calls"]
             = executor.before["total_calls"] + Cardinality(Succeeded)
       /\ executor.stats["total_calls"] = SumOver(executor.stats, tool_mapping)
       /\ \A t \in tool_mapping :
             executor.stats[t]
                = executor.before[t]
                  + Cardinality({w \in Succeeded :
                                   executor.tool_calls[w].function.name = t})

\* three successful calls, two of them of the same tool, on an executor that
\* had counted one call before
NoLostStatsUpdateWitness ==
    /\ executor.phase = "returned"
    /\ Cardinality(Succeeded) = 3
    /\ executor.before["total_calls"] = 1
    /\ executor.stats["total_calls"] = 4
    /\ executor.stats["arxiv_search_tool"] = 2
    /\ executor.stats["tavily_search_tool"] = 2

\* two successful calls and a failed one: the failed one is not counted
NoLostStatsUpdateFailedWitness ==
    /\ executor.phase = "returned"
    /\ Len(executor.tool_calls) = 3
    /\ Cardinality(Succeeded) = 2
    /\ executor.before["total_calls"] = 0
    /\ executor.stats["total_calls"] = 2

====
